---- MODULE Spec2Model ----
(***************************************************************************)
(* Model of src/app.py: the session registry (scraping_sessions), the two  *)
(* HTTP handlers start_scraping / stop_scraping and the background scan    *)
(* task GiustiziaScraper.scrape.                                           *)
(*                                                                         *)
(* src/app.py holds two revisions of the program, one pasted inside the    *)
(* other at line 41.  The handlers of the two revisions are identical      *)
(* (lines 223-283 and 444-504).  In the enclosing revision (lines 1-40 and *)
(* 309-529) scrape is a method of GiustiziaScraper; in the nested revision *)
(* (lines 41-308) the def of scrape is at module level (line 70), so the   *)
(* class of lines 62-68 has no scrape attribute and the expression         *)
(* scraper.scrape of line 256 raises AttributeError.  The variable rev     *)
(* says which revision is running.                                         *)
(*                                                                         *)
(* Handlers run on concurrent request threads and every scan on a thread   *)
(* of its own; a thread switch can happen between any two accesses of the  *)
(* shared dictionary or of a scraper's is_running flag.  Each handler and  *)
(* the scan task are therefore cut into steps holding at most one access   *)
(* of the shared state; the statements between two accesses touch only the *)
(* thread's own data (the page, the results, the events it emits) and      *)
(* belong to the step that follows them.                                   *)
(***************************************************************************)
EXTENDS Integers, Sequences, FiniteSets, Bags, TLC

\* ---------------------------------------------------------------- bounds
MaxScans    == 2     \* scrapers created in one behaviour
MaxCase     == 2     \* largest case number a request asks for
MaxInFlight == 2     \* requests being handled at the same time

\* ------------------------------------------------------ program constants
MaxRange    == 10000 \* start_scraping: end_num - start_num > 10000
max_retries == 3     \* scrape: max_retries = 3

Missing   == "<missing>"          \* the request carries no sessionId field
Revisions == {"method", "function"}

\* ----------------------------------------------------------------- text
\* A string is a sequence of one-character strings.
LowerChar(c) == IF c = "A" THEN "a" ELSE IF c = "C" THEN "c" ELSE c

\* str.lower()
Lower(s) == [i \in 1..Len(s) |-> LowerChar(s[i])]

RECURSIVE LStrip(_)
LStrip(s) == IF s # <<>> /\ Head(s) = " " THEN LStrip(Tail(s)) ELSE s

RECURSIVE RStrip(_)
RStrip(s) ==
    IF s # <<>> /\ s[Len(s)] = " " THEN RStrip(SubSeq(s, 1, Len(s) - 1)) ELSE s

\* str.strip()
Strip(s) == RStrip(LStrip(s))

\* keyword in text_content
IsSubstring(k, d) ==
    \E i \in 0..(Len(d) - Len(k)) : SubSeq(d, i + 1, i + Len(k)) = k

\* [kw.strip().lower() for kw in data['keywords'].split('\n') if kw.strip()]
RECURSIVE NormalizeKeywords(_)
NormalizeKeywords(lines) ==
    IF lines = <<>> THEN <<>>
    ELSE IF Strip(Head(lines)) # <<>>
         THEN <<Lower(Strip(Head(lines)))>> \o NormalizeKeywords(Tail(lines))
         ELSE NormalizeKeywords(Tail(lines))

\* f"{num:05d}" for 0 <= num < 100000
NumberStr(num) ==
    << (num \div 10000) % 10, (num \div 1000) % 10, (num \div 100) % 10,
       (num \div 10) % 10, num % 10 >>

\* ---------------------------------------------------------- environment
\* What the clients and the portal may do.  Two environments are explored:
\* "race" has several scans of one case each in one session, concurrent
\* requests and a portal with one page text; "solo" has a single scan and a
\* single request at a time, with two sessions, longer ranges and more
\* keywords and page texts.
Envs == {"race", "solo"}

\* Session ids the clients use.
Sessions(e) == IF e = "race" THEN {"default"} ELSE {"default", "s1"}

EnvScans(e)    == IF e = "race" THEN MaxScans ELSE 1
EnvInFlight(e) == IF e = "race" THEN MaxInFlight ELSE 1

\* The keywords field of a request, already split at '\n'.
KeywordInputs(e) ==
    IF e = "race"
    THEN { << <<" ">> >>, << <<"A">>, <<" ">> >> }
    ELSE { <<>>, << <<" ">> >>, << <<"c">>, <<"C">> >>,
           << <<"a">>, <<" ">>, <<" ", "b", " ">> >> }

Precisions(e) == IF e = "race" THEN {60} ELSE {60, 100}

StartNums(e) == IF e = "race" THEN {1} ELSE {1, 2}

EndNums(e) == IF e = "race" THEN {0, 1} ELSE 0..MaxCase

\* JSON bodies of POST /start_scraping.  wellFormed = FALSE stands for a body
\* in which int(data[...]) or data['keywords'] raises.
StartRequests(e) ==
    [ sessionId  : Sessions(e) \cup {Missing},
      wellFormed : BOOLEAN,
      startNum   : StartNums(e),
      endNum     : EndNums(e) \cup {MaxRange + 3},
      keywords   : KeywordInputs(e),
      precision  : Precisions(e) ]

\* JSON bodies of POST /stop_scraping.
StopRequests(e) == [ sessionId : Sessions(e) \cup {Missing} ]

\* data.get('sessionId', 'default')
SessionIdOf(req) == IF req.sessionId = Missing THEN "default" ELSE req.sessionId

\* The extracted text of a result page (page.inner_text('#valoreOggetto')).
Docs(e) ==
    IF e = "race" THEN { <<"A", "c">> }
    ELSE { <<" ">>, <<"A", "c">>, <<"c">> }

\* Triples of scores the rapidfuzz library can return for a keyword and a
\* text: one triple per way the best score can arise.
FuzzTriples(e) ==
    { [partial |-> t[1], tokenSort |-> t[2], tokenSet |-> t[3]] :
        t \in IF e = "race" THEN {<<0, 0, 0>>}
              ELSE {<<0, 0, 0>>, <<80, 0, 0>>, <<0, 80, 0>>, <<0, 0, 80>>} }

\* How many page.goto calls of a case fail before one succeeds.
GotoFailures(e) == IF e = "race" THEN {0, max_retries} ELSE 0..max_retries

\* The steps after the navigation at which the portal makes a case fail.
FailingSteps(e) == IF e = "race" THEN {"wait"} ELSE {"form", "wait", "extract"}

VARIABLES
    env,                \* which environment the program runs in
    rev,                \* which revision of the program runs
    scraping_sessions,  \* the registry: session id -> index into scrapers
    scrapers,           \* every GiustiziaScraper created, with its thread
    handlers,           \* bag of the requests being handled
    matching            \* one application of the keyword matcher on its own

vars == <<env, rev, scraping_sessions, scrapers, handlers, matching>>

NoResults == [k \in {} |-> <<>>]

\* ------------------------------------------------------------ the registry
RegistryPut(reg, session_id, id) ==
    [k \in DOMAIN reg \cup {session_id} |-> IF k = session_id THEN id ELSE reg[k]]

RegistryDel(reg, session_id) ==
    [k \in DOMAIN reg \ {session_id} |-> reg[k]]

\* ------------------------------------------------------- request threads
\* A request thread: op is the route, pc its position, resp the response it
\* returns once pc = "replied".
Handler(op, pc, session_id, args, target, resp) ==
    [ op |-> op, pc |-> pc, session_id |-> session_id, args |-> args,
      target |-> target, resp |-> resp ]

Replied(op, session_id, resp) == Handler(op, "replied", session_id, <<>>, 0, resp)

InFlight == BagToSet(handlers)

\* No response is waiting to leave the server.  Returning a response touches
\* no shared state, so it is taken before any other step.
Quiet == \A hd \in InFlight : hd.pc # "replied"

Replace(old, new) == handlers' = (handlers (-) SetToBag({old})) (+) SetToBag({new})

\* Responses that report a start_scraping request as refused.
ErrorResponses ==
    {"error500", "no_keywords", "bad_range", "range_too_large", "already"}

\* What one pass through the loop body did; the loop forgets it when it moves
\* on.  outcome: how the pass ended; fails: failing page.goto calls the portal
\* had in store; attempts, backoffs: page.goto calls and time.sleep(1) made;
\* steps: the steps after the navigation that were begun; delayed: the
\* inter-case time.sleep was executed; emitted: events sent during the pass.
NoCase ==
    [ outcome |-> "none", fails |-> 0, attempts |-> 0, backoffs |-> 0,
      steps |-> {}, delayed |-> FALSE, emitted |-> {} ]

\* GiustiziaScraper.__init__ plus the locals of the thread that runs scrape
\* and the history of the run.
NewScraper(session_id, args, pc, overwrote) ==
    [ session_id       |-> session_id,
      is_running       |-> FALSE,
      results          |-> NoResults,
      current_progress |-> 0,
      total_searches   |-> 0,
      \* thread locals
      pc        |-> pc,
      start_num |-> args.start_num,
      end_num   |-> args.end_num,
      keywords  |-> args.keywords,
      precision |-> args.precision,
      num       |-> args.start_num - 1,  \* the loop variable (before the loop: none yet)
      browser   |-> "none",
      caseLog   |-> NoCase,
      \* history
      overwrote    |-> overwrote,  \* inserted over an entry of the same session
      launched     |-> FALSE,      \* chromium.launch returned a browser
      releases     |-> 0,          \* times the browser went from open to closed
      closeCalls   |-> 0,          \* calls of browser.close()
      visited      |-> {},         \* case numbers whose iteration began
      firstFail    |-> 0,          \* first case that ended in a per-case failure
      lastProgress |-> <<>>,       \* <<num, current>> of the last progress_update
      matched      |-> {},         \* <<keyword, num>> the matcher reported as matched
      total_found  |-> 0,          \* total_found of the scraping_complete event
      complete     |-> 0,          \* scraping_complete events emitted
      error        |-> 0,          \* scraping_error events emitted
      stopFlagged  |-> FALSE,      \* a stop_scraping cleared is_running
      stopped      |-> FALSE,      \* a stop_scraping aimed at this scan returned success
      stopNum      |-> 0,          \* ... the case in flight then (0: none)
      lateIter     |-> FALSE,      \* an iteration began after that success
      ownRemovals  |-> 0,          \* times the task deleted its own registry entry
      removedOther |-> FALSE ]     \* the task deleted another scan's entry

\* Positions of the task inside the for loop of scrape.
InCasePcs  == {"emit", "case"}
IterPcs    == InCasePcs \cup {"iter"}
\* Positions at which the task has left the loop for good.
TerminalPcs == {"exit", "failed", "del", "done"}

\* ------------------------------------------------------------ start_scraping
\* Fault injection for C13: the validation without its limit on the range.
ValidateNoLimit(req) ==
    IF ~req.wellFormed THEN "error500"
    ELSE IF NormalizeKeywords(req.keywords) = <<>> THEN "no_keywords"
    ELSE IF req.startNum > req.endNum THEN "bad_range"
    ELSE "ok"

\* Input validation, in the order of the code.
Validate(req) ==
    IF ~req.wellFormed THEN "error500"
    ELSE IF NormalizeKeywords(req.keywords) = <<>> THEN "no_keywords"
    ELSE IF req.startNum > req.endNum THEN "bad_range"
    ELSE IF req.endNum - req.startNum > MaxRange THEN "range_too_large"
    ELSE "ok"

\* Fault injection for C1: start_scraping without its membership test.
AlreadyRunningUnchecked(session_id) == FALSE

\* if session_id in scraping_sessions
AlreadyRunning(session_id) == session_id \in DOMAIN scraping_sessions

\* scraper.scrape resolves to a bound method
HasScrapeMethod == rev = "method"

\* Requests that passed the membership test and have not yet inserted.
PendingInserts ==
    BagCardinality([hd \in {x \in InFlight : x.pc = "insert"} |-> handlers[hd]])

\* start_scraping up to and including the membership test of the registry.
StartCheck(req) ==
    /\ Quiet
    /\ BagCardinality(handlers) < EnvInFlight(env)
    /\ LET v   == Validate(req)
           sid == SessionIdOf(req)
       IN IF v # "ok"
          THEN handlers' = handlers (+) SetToBag({Replied("start", sid, v)})
          ELSE IF AlreadyRunning(sid)
          THEN handlers' = handlers (+) SetToBag({Replied("start", sid, "already")})
          ELSE /\ Len(scrapers) + PendingInserts < EnvScans(env)
               /\ handlers' = handlers (+) SetToBag({
                     Handler("start", "insert", sid,
                             [ start_num |-> req.startNum,
                               end_num   |-> req.endNum,
                               keywords  |-> NormalizeKeywords(req.keywords),
                               precision |-> req.precision ],
                             0, "none")})
    /\ UNCHANGED <<matching, env, rev, scraping_sessions, scrapers>>

\* start_scraping from the creation of the scraper to the response: the
\* scraper is stored in the registry, then the thread is created and started
\* (AttributeError -> 500 when the class has no scrape).
StartInsert(hd) ==
    /\ Quiet
    /\ hd \in InFlight /\ hd.pc = "insert"
    /\ LET sid == hd.session_id
           id  == Len(scrapers) + 1
       IN /\ scrapers' = Append(scrapers,
                 NewScraper(sid, hd.args,
                            IF HasScrapeMethod THEN "begin" ELSE "nothread",
                            sid \in DOMAIN scraping_sessions))
          /\ scraping_sessions' = RegistryPut(scraping_sessions, sid, id)
          /\ Replace(hd, Replied("start", sid,
                         IF HasScrapeMethod THEN "started" ELSE "error500"))
    /\ UNCHANGED <<matching, env, rev>>

\* ------------------------------------------------------------- stop_scraping
\* if session_id in scraping_sessions ... else 404
StopCheck(req) ==
    /\ Quiet
    /\ BagCardinality(handlers) < EnvInFlight(env)
    /\ LET sid == SessionIdOf(req)
       IN handlers' = handlers (+) SetToBag({
             IF sid \in DOMAIN scraping_sessions
             THEN Handler("stop", "stop_flag", sid, <<>>, 0, "none")
             ELSE Replied("stop", sid, "not_found")})
    /\ UNCHANGED <<matching, env, rev, scraping_sessions, scrapers>>

\* scraping_sessions[session_id].is_running = False  (KeyError -> 500)
StopFlag(hd) ==
    /\ Quiet
    /\ hd \in InFlight /\ hd.pc = "stop_flag"
    /\ LET sid == hd.session_id
       IN IF sid \in DOMAIN scraping_sessions
          THEN LET id == scraping_sessions[sid]
               IN /\ scrapers' = [scrapers EXCEPT
                        ![id].is_running = FALSE, ![id].stopFlagged = TRUE]
                  /\ Replace(hd, Handler("stop", "stop_del", sid, <<>>, id, "none"))
          ELSE /\ Replace(hd, Replied("stop", sid, "error500"))
               /\ UNCHANGED scrapers
    /\ UNCHANGED <<matching, env, rev, scraping_sessions>>

\* History of a successful stop, kept on the scraper whose flag it cleared.
NoteStopped(s) ==
    IF s.stopped THEN s
    ELSE [s EXCEPT !.stopped = TRUE,
                   !.stopNum = IF s.pc \in InCasePcs THEN s.num ELSE 0]

\* del scraping_sessions[session_id]; return 'Scraping stopped'  (KeyError -> 500)
StopDel(hd) ==
    /\ Quiet
    /\ hd \in InFlight /\ hd.pc = "stop_del"
    /\ LET sid == hd.session_id
           id  == hd.target
       IN IF sid \in DOMAIN scraping_sessions
          THEN /\ scraping_sessions' = RegistryDel(scraping_sessions, sid)
               /\ scrapers' = [scrapers EXCEPT ![id] = NoteStopped(scrapers[id])]
               /\ Replace(hd, Replied("stop", sid, "stopped"))
          ELSE /\ Replace(hd, Replied("stop", sid, "error500"))
               /\ UNCHANGED <<scraping_sessions, scrapers>>
    /\ UNCHANGED <<matching, env, rev>>

\* return jsonify(...): the response leaves the server.
Return(hd) ==
    /\ hd \in InFlight /\ hd.pc = "replied"
    /\ handlers' = handlers (-) SetToBag({hd})
    /\ UNCHANGED <<matching, env, rev, scraping_sessions, scrapers>>

\* ------------------------------------------------------------------- scrape
\* Fault injection for C9: leaving the with block without stopping the driver.
WithExitLeaks(s) == s

\* __exit__ of "with sync_playwright() as p": stopping the driver ends a
\* browser that is still open.
WithExit(s) ==
    IF s.browser = "open"
    THEN [s EXCEPT !.browser = "closed", !.releases = @ + 1]
    ELSE s

\* browser.close()
BrowserClose(s) ==
    IF s.browser = "open"
    THEN [s EXCEPT !.browser = "closed", !.releases = @ + 1, !.closeCalls = @ + 1]
    ELSE [s EXCEPT !.closeCalls = @ + 1]

\* Fault injection for C16: the loop test inverted.
LoopBreaksInverted(s) == s.is_running

\* if not self.is_running: break
LoopBreaks(s) == ~s.is_running

\* Fault injection for C8: the exception of a case is not caught inside the
\* loop body; it leaves the with block and reaches the except clause of scrape.
CaseFailedEscapes(s) ==
    [WithExit(s) EXCEPT !.pc = "failed", !.firstFail = IF @ = 0 THEN s.num ELSE @]

\* Fault injection for C12: the exception of a case is caught nowhere and
\* ends the thread.
CaseFailedEndsThread(s) ==
    [s EXCEPT !.pc = "done", !.firstFail = IF @ = 0 THEN s.num ELSE @]

\* An exception caught by one of the two except clauses inside the loop body:
\* it is logged and the loop continues with the next case.
CaseFailed(s) ==
    [s EXCEPT !.pc = "iter", !.firstFail = IF @ = 0 THEN s.num ELSE @]

\* if not text_content.strip(): continue
CaseSkipped(s) == [s EXCEPT !.pc = "iter"]

\* self.current_progress += 1; time.sleep(random.uniform(0.8, 1.5))
CaseDone(s) ==
    [s EXCEPT !.current_progress = @ + 1, !.caseLog.delayed = TRUE, !.pc = "iter"]

\* The keyword matcher called by scrape: exact substring first, otherwise the
\* best of three fuzzy scores against the threshold (ties: partial, then
\* token sort, then token set).  The three scores come from rapidfuzz.
match_keyword(keyword, document, threshold, fz) ==
    LET k    == Strip(Lower(keyword))
        d    == Strip(Lower(document))
        best == IF fz.partial >= fz.tokenSort /\ fz.partial >= fz.tokenSet
                THEN [score |-> fz.partial, method |-> "partial"]
                ELSE IF fz.tokenSort >= fz.tokenSet
                THEN [score |-> fz.tokenSort, method |-> "tokenSort"]
                ELSE [score |-> fz.tokenSet, method |-> "tokenSet"]
    IN IF IsSubstring(k, d)
       THEN [matched |-> TRUE, score |-> 100, method |-> "exact"]
       ELSE IF best.score >= threshold
       THEN [matched |-> TRUE, score |-> best.score, method |-> best.method]
       ELSE [matched |-> FALSE, score |-> best.score, method |-> "none"]

Contains(seq, x) == \E i \in 1..Len(seq) : seq[i] = x

\* Fault injection for C21: the case number appended without looking whether
\* the list holds it already.
AddResultUnchecked(results, keyword, number_str) ==
    LET old == IF keyword \in DOMAIN results THEN results[keyword] ELSE <<>>
    IN [k \in DOMAIN results \cup {keyword} |->
          IF k = keyword THEN Append(old, number_str) ELSE results[k]]

\* if keyword not in self.results: self.results[keyword] = []
\* if number_str not in self.results[keyword]: self.results[keyword].append(number_str)
AddResult(results, keyword, number_str) ==
    LET old == IF keyword \in DOMAIN results THEN results[keyword] ELSE <<>>
        new == IF Contains(old, number_str) THEN old ELSE Append(old, number_str)
    IN [k \in DOMAIN results \cup {keyword} |-> IF k = keyword THEN new ELSE results[k]]

\* Fault injection for C11: the keyword loop left at the first match.
RECURSIVE MatchAllBreaks(_, _, _, _, _)
MatchAllBreaks(results, j, text, s, fz) ==
    IF j > Len(s.keywords) THEN results
    ELSE IF match_keyword(s.keywords[j], text, s.precision, fz[j]).matched
    THEN AddResult(results, s.keywords[j], NumberStr(s.num))
    ELSE MatchAllBreaks(results, j + 1, text, s, fz)

\* for keyword in keywords: ... ; fz[j] are the scores rapidfuzz gives keyword j
RECURSIVE MatchAll(_, _, _, _, _)
MatchAll(results, j, text, s, fz) ==
    IF j > Len(s.keywords) THEN results
    ELSE LET m == match_keyword(s.keywords[j], text, s.precision, fz[j])
         IN MatchAll(IF m.matched
                     THEN AddResult(results, s.keywords[j], NumberStr(s.num))
                     ELSE results,
                     j + 1, text, s, fz)

\* for attempt in range(max_retries): try: page.goto(...); break
\* except: if attempt == max_retries - 1: raise; ...; time.sleep(1)
\* gotoFails: how many page.goto calls fail before one succeeds.
\* TRUE: the loop is left by break; FALSE: the last attempt re-raises.
RECURSIVE GotoRetry(_, _)
GotoRetry(attempt, gotoFails) ==
    IF attempt >= gotoFails THEN TRUE
    ELSE IF attempt = max_retries - 1 THEN FALSE
    ELSE GotoRetry(attempt + 1, gotoFails)

\* Fault injection for C17: a backoff also after the last failed attempt.
GotoLoopSleepsLast(attempt, gotoFails, backoffs) ==
    IF gotoFails < max_retries
    THEN [ok |-> TRUE, attempts |-> gotoFails + 1, backoffs |-> gotoFails]
    ELSE [ok |-> FALSE, attempts |-> max_retries, backoffs |-> max_retries]

\* The same loop with its page.goto calls and its time.sleep(1) counted.
RECURSIVE GotoLoop(_, _, _)
GotoLoop(attempt, gotoFails, backoffs) ==
    IF attempt >= gotoFails
    THEN [ok |-> TRUE, attempts |-> attempt + 1, backoffs |-> backoffs]
    ELSE IF attempt = max_retries - 1
    THEN [ok |-> FALSE, attempts |-> attempt + 1, backoffs |-> backoffs]
    ELSE GotoLoop(attempt + 1, gotoFails, backoffs + 1)

\* The keywords (by position) for which match_keyword reports a match.
MatchedAt(s, text, fz) ==
    {j \in 1..Len(s.keywords) :
        match_keyword(s.keywords[j], text, s.precision, fz[j]).matched}

\* The keyword loop and what follows it in the per-case try block.
MatchCase(s, text_content, fz) ==
    LET hits == MatchedAt(s, text_content, fz)
    IN CaseDone([s EXCEPT
          !.results = MatchAll(s.results, 1, text_content, s, fz),
          !.matched = @ \cup {<<s.keywords[j], s.num>> : j \in hits},
          !.caseLog.emitted = IF hits = {} THEN @ ELSE @ \cup {"result_found"}])

\* with sync_playwright() as p: browser = p.chromium.launch(...);
\* page = browser.new_page(...).  An exception here leaves the with block and
\* reaches the except clause of scrape.
LaunchOutcomes == {"ok", "launch_fails", "new_page_fails"}

\* The first statements of scrape (is_running = True among them), the initial
\* progress_update and the launch of the browser.
Begin(i) ==
    /\ Quiet
    /\ scrapers[i].pc = "begin"
    /\ \E o \in LaunchOutcomes :
          LET s == [scrapers[i] EXCEPT
                      !.total_searches   = scrapers[i].end_num - scrapers[i].start_num + 1,
                      !.current_progress = 0,
                      !.results          = NoResults,
                      !.is_running       = TRUE,
                      !.lastProgress     = <<0, 0>>]
              opened == [s EXCEPT !.browser = "open", !.launched = TRUE]
          IN scrapers' = [scrapers EXCEPT ![i] =
                CASE o = "ok"             -> [opened EXCEPT !.pc = "iter"]
                  [] o = "launch_fails"   -> [WithExit(s) EXCEPT !.pc = "failed"]
                  [] o = "new_page_fails" -> [WithExit(opened) EXCEPT !.pc = "failed"]]
    /\ UNCHANGED <<matching, env, rev, scraping_sessions, handlers>>

\* for num in range(start_num, end_num + 1): if not self.is_running: break
IterCheck(i) ==
    /\ Quiet
    /\ scrapers[i].pc = "iter"
    /\ LET s == scrapers[i]
       IN scrapers' = [scrapers EXCEPT ![i] =
             IF s.num = s.end_num \/ LoopBreaks(s)
             THEN [s EXCEPT !.pc = "exit", !.caseLog = NoCase]
             ELSE [s EXCEPT !.num      = @ + 1,
                            !.caseLog  = NoCase,
                            !.visited  = @ \cup {s.num + 1},
                            !.lateIter = @ \/ s.stopped,
                            !.pc       = "emit"]]
    /\ UNCHANGED <<matching, env, rev, scraping_sessions, handlers>>

\* socketio.emit('progress_update', {'current': self.current_progress, ...})
EmitProgress(i) ==
    /\ Quiet
    /\ scrapers[i].pc = "emit"
    /\ scrapers' = [scrapers EXCEPT ![i] =
          [@ EXCEPT !.lastProgress = <<scrapers[i].num, scrapers[i].current_progress>>,
                    !.pc           = "case"]]
    /\ UNCHANGED <<matching, env, rev, scraping_sessions, handlers>>

\* One pass through the per-case try block: the page.goto retry loop, the
\* form steps, the wait for the result, the extraction (inner_text or its
\* fallback), the empty check, the keyword loop, the progress increment and
\* the delay.  What the portal does is drawn step by step.
ProcessCase(i) ==
    /\ Quiet
    /\ scrapers[i].pc = "case"
    /\ \E gotoFails \in GotoFailures(env) :
          LET nav == GotoLoop(0, gotoFails, 0)
              Log(outcome, steps) ==
                  [scrapers[i] EXCEPT !.caseLog =
                      [ outcome |-> outcome, fails |-> gotoFails,
                        attempts |-> nav.attempts, backoffs |-> nav.backoffs,
                        steps |-> steps, delayed |-> FALSE, emitted |-> {} ]]
          IN IF ~GotoRetry(0, gotoFails)
             THEN scrapers' = [scrapers EXCEPT ![i] = CaseFailed(Log("goto_failed", {}))]
             ELSE \/ \E step \in FailingSteps(env) :
                       \* this step raises
                       scrapers' = [scrapers EXCEPT ![i] =
                          CaseFailed(
                             CASE step = "form" -> Log("form_failed", {"form"})
                               [] step = "wait" -> Log("wait_timeout", {"form", "wait"})
                               [] step = "extract" ->
                                    Log("extract_failed", {"form", "wait", "extract"}))]
                  \/ \E doc \in Docs(env) :
                       LET text_content == Lower(doc)
                       IN IF Strip(text_content) = <<>>
                          THEN scrapers' = [scrapers EXCEPT ![i] =
                                  CaseSkipped(Log("empty", {"form", "wait", "extract"}))]
                          ELSE \E fz \in [1..Len(scrapers[i].keywords) -> FuzzTriples(env)] :
                                  scrapers' = [scrapers EXCEPT ![i] =
                                     MatchCase(Log("processed",
                                                   {"form", "wait", "extract", "match"}),
                                               text_content, fz)]
    /\ UNCHANGED <<matching, env, rev, scraping_sessions, handlers>>

\* Fault injection for C14: a finally clause that does not touch the registry.
FinallyCheckKeepsEntry(s) == [s EXCEPT !.is_running = FALSE, !.pc = "done"]

\* finally: self.is_running = False; if self.session_id in scraping_sessions:
FinallyCheck(s) ==
    [s EXCEPT !.is_running = FALSE,
              !.pc = IF s.session_id \in DOMAIN scraping_sessions THEN "del" ELSE "done"]

\* sum(len(numbers) for numbers in self.results.values())
RECURSIVE SumLen(_, _)
SumLen(results, keys) ==
    IF keys = {} THEN 0
    ELSE LET k == CHOOSE x \in keys : TRUE
         IN Len(results[k]) + SumLen(results, keys \ {k})

\* Fault injection for C22: an exception after scraping_complete was emitted.
FinishThenFails(i) ==
    /\ Quiet
    /\ scrapers[i].pc = "exit"
    /\ scrapers' = [scrapers EXCEPT ![i] =
          [WithExit(BrowserClose(@)) EXCEPT !.complete = @ + 1, !.pc = "failed"]]
    /\ UNCHANGED <<matching, env, rev, scraping_sessions, handlers>>

\* After the loop: browser.close(), the end of the with block,
\* socketio.emit('scraping_complete', ...), then the finally clause up to its
\* membership test.
Finish(i) ==
    /\ Quiet
    /\ scrapers[i].pc = "exit"
    /\ scrapers' = [scrapers EXCEPT ![i] =
          FinallyCheck([WithExit(BrowserClose(@)) EXCEPT
             !.complete    = @ + 1,
             !.total_found = SumLen(scrapers[i].results, DOMAIN scrapers[i].results)])]
    /\ UNCHANGED <<matching, env, rev, scraping_sessions, handlers>>

\* except Exception as e: socketio.emit('scraping_error', ...), then the
\* finally clause up to its membership test.
Abort(i) ==
    /\ Quiet
    /\ scrapers[i].pc = "failed"
    /\ scrapers' = [scrapers EXCEPT ![i] = FinallyCheck([@ EXCEPT !.error = @ + 1])]
    /\ UNCHANGED <<matching, env, rev, scraping_sessions, handlers>>

\* del scraping_sessions[self.session_id]  (KeyError ends the thread)
FinallyDel(i) ==
    /\ Quiet
    /\ scrapers[i].pc = "del"
    /\ LET s   == scrapers[i]
           sid == s.session_id
       IN IF sid \in DOMAIN scraping_sessions
          THEN /\ scrapers' = [scrapers EXCEPT ![i] =
                     [s EXCEPT !.pc = "done",
                               !.ownRemovals  = IF scraping_sessions[sid] = i
                                                THEN @ + 1 ELSE @,
                               !.removedOther = @ \/ scraping_sessions[sid] # i]]
               /\ scraping_sessions' = RegistryDel(scraping_sessions, sid)
          ELSE /\ scrapers' = [scrapers EXCEPT ![i].pc = "done"]
               /\ UNCHANGED scraping_sessions
    /\ UNCHANGED <<matching, env, rev, handlers>>

\* ------------------------------------------------- the matcher on its own
\* Inputs of one application of the matcher: a line of the keywords field, the
\* text of a result page, the precision of the request and the scores that
\* rapidfuzz returns when the keyword is not contained in the text.
MatchInputs ==
    [ stage     : {"input"},
      line      : { <<"a">>, <<"A", " ">>, <<" ", "c">>, <<"a", "c">>, <<"b">> },
      document  : { <<>>, <<" ">>, <<"A", "c">>, <<"c", " ">>, <<"b", "a">> },
      threshold : {0, 60, 100},
      fz        : [partial : {0, 80, 100}, tokenSort : {0, 80, 100}, tokenSet : {0, 80, 100}],
      outcome   : {<<>>} ]

\* No matcher application is under way (the scans run instead).
NoMatching ==
    [ stage |-> "none", line |-> <<>>, document |-> <<>>, threshold |-> 0,
      fz |-> [partial |-> 0, tokenSort |-> 0, tokenSet |-> 0], outcome |-> <<>> ]

\* fuzz.partial_ratio(keyword, text_content): 0 for an empty string, 100 when
\* the shorter string is contained in the longer one, otherwise whatever the
\* library computes.
partial_ratio(keyword, text_content, computed) ==
    IF keyword = <<>> \/ text_content = <<>> THEN 0
    ELSE IF IsSubstring(keyword, text_content) \/ IsSubstring(text_content, keyword)
    THEN 100
    ELSE computed

\* Fault injection for C15: the match decided by the score alone, strictly
\* above the precision.
InlineMatchScoreOnly(keyword, text_content, precision, computed) ==
    LET score == partial_ratio(keyword, text_content, computed)
    IN [ matched     |-> score > precision,
         match_score |-> score,
         exact_match |-> IsSubstring(keyword, text_content) ]

\* The match decision written out in the keyword loop of the nested revision:
\* score = fuzz.partial_ratio(...); exact_match = keyword in text_content;
\* if score >= precision or exact_match: ... emit result_found with
\* match_score and exact_match.
InlineMatch(keyword, text_content, precision, computed) ==
    LET score       == partial_ratio(keyword, text_content, computed)
        exact_match == IsSubstring(keyword, text_content)
    IN [ matched     |-> score >= precision \/ exact_match,
         match_score |-> score,
         exact_match |-> exact_match ]

\* The keyword as start_scraping stores it, the text as scrape lowers it, and
\* the call of match_keyword.
MatchMethod ==
    /\ rev = "method"
    /\ matching.stage = "input"
    /\ LET keyword      == NormalizeKeywords(<<matching.line>>)[1]
           text_content == Lower(matching.document)
       IN matching' = [matching EXCEPT
             !.stage   = "done",
             !.outcome = match_keyword(keyword, text_content,
                                       matching.threshold, matching.fz)]
    /\ UNCHANGED <<env, rev, scraping_sessions, scrapers, handlers>>

\* The same for the nested revision: text_content is lowered and stripped,
\* and the decision is the one written out in the loop.
MatchInline ==
    /\ rev = "function"
    /\ matching.stage = "input"
    /\ LET keyword      == NormalizeKeywords(<<matching.line>>)[1]
           text_content == Strip(Lower(matching.document))
       IN matching' = [matching EXCEPT
             !.stage   = "done",
             !.outcome = InlineMatch(keyword, text_content,
                                     matching.threshold, matching.fz.partial)]
    /\ UNCHANGED <<env, rev, scraping_sessions, scrapers, handlers>>

\* ---------------------------------------------------------- specification
InitIn(e) ==
    /\ env = e
    /\ rev \in Revisions
    /\ scraping_sessions = [k \in {} |-> 0]
    /\ scrapers = <<>>
    /\ handlers = EmptyBag
    /\ matching = NoMatching

Init == InitIn("race")

InitSolo == InitIn("solo")

Next ==
    \/ \E req \in StartRequests(env) : StartCheck(req)
    \/ \E hd \in InFlight : StartInsert(hd)
    \/ \E req \in StopRequests(env) : StopCheck(req)
    \/ \E hd \in InFlight : StopFlag(hd)
    \/ \E hd \in InFlight : StopDel(hd)
    \/ \E hd \in InFlight : Return(hd)
    \/ \E i \in 1..Len(scrapers) : Begin(i)
    \/ \E i \in 1..Len(scrapers) : IterCheck(i)
    \/ \E i \in 1..Len(scrapers) : EmitProgress(i)
    \/ \E i \in 1..Len(scrapers) : ProcessCase(i)
    \/ \E i \in 1..Len(scrapers) : Finish(i)
    \/ \E i \in 1..Len(scrapers) : Abort(i)
    \/ \E i \in 1..Len(scrapers) : FinallyDel(i)

Spec == Init /\ [][Next]_vars

SpecSolo == InitSolo /\ [][Next]_vars

\* One step of the thread that runs scrape for scraper i.
TaskStep(i) ==
    /\ i \in 1..Len(scrapers)
    /\ \/ Begin(i) \/ IterCheck(i) \/ EmitProgress(i) \/ ProcessCase(i)
       \/ Finish(i) \/ Abort(i) \/ FinallyDel(i)

\* The scheduler: a response that is ready leaves the server, and a thread
\* that is able to run again and again gets to run.
Fairness ==
    /\ WF_vars(\E hd \in InFlight : Return(hd))
    /\ \A i \in 1..MaxScans : SF_vars(TaskStep(i))

SpecSoloFair == SpecSolo /\ Fairness

\* The matcher applied once to inputs drawn from MatchInputs.
InitMatch ==
    /\ env = "solo"
    /\ rev \in Revisions
    /\ scraping_sessions = [k \in {} |-> 0]
    /\ scrapers = <<>>
    /\ handlers = EmptyBag
    /\ matching \in MatchInputs

NextMatch ==
    \/ MatchMethod
    \/ MatchInline

SpecMatch == InitMatch /\ [][NextMatch]_vars

TypeOK ==
    /\ env \in Envs
    /\ rev \in Revisions
    /\ DOMAIN scraping_sessions \subseteq Sessions(env)
    /\ \A k \in DOMAIN scraping_sessions : scraping_sessions[k] \in 1..Len(scrapers)
    /\ Len(scrapers) <= EnvScans(env)
    /\ BagCardinality(handlers) <= EnvInFlight(env)

\* ------------------------------------------------------------------ claims
Scans == 1..Len(scrapers)

\* The task of scraper i exists and has not reached Completed, Cancelled or
\* FatalError.
Active(i) == scrapers[i].pc \in {"begin"} \cup IterPcs

Registered(i) ==
    /\ scrapers[i].session_id \in DOMAIN scraping_sessions
    /\ scraping_sessions[scrapers[i].session_id] = i

\* Requests whose handling began in this step.
Arrived ==
    IF BagCardinality(handlers') > BagCardinality(handlers)
    THEN {hd \in BagToSet(handlers') : CopiesIn(hd, handlers') > CopiesIn(hd, handlers)}
    ELSE {}

InvalidResponses == {"error500", "no_keywords", "bad_range", "range_too_large"}

\* C1, first half, as a step: a start_scraping request that arrives for a
\* registered session is answered with an error ('already' unless its
\* parameters are invalid), and the step creates no scraper and changes no
\* registry entry; a request for an unregistered session is never answered
\* 'already'.
C1_StartStep ==
    \A hd \in Arrived :
        hd.op = "start" =>
            IF hd.session_id \in DOMAIN scraping_sessions
            THEN /\ hd.pc = "replied"
                 /\ hd.resp \in InvalidResponses \cup {"already"}
                 /\ scrapers' = scrapers
                 /\ scraping_sessions' = scraping_sessions
            ELSE hd.resp # "already"

\* C1, second half: a scan that has terminated holds no registry entry, so
\* it does not stand in the way of a new start for its session.
C1_Freed == \A i \in Scans : scrapers[i].pc = "done" => ~Registered(i)

\* C1: a start_scraping for a session present in the registry is rejected
\* and creates no scraper and no thread; once the earlier scan has terminated
\* a start for the same session is admitted.
C1_Admission == [][C1_StartStep]_vars /\ []C1_Freed

\* A start was refused as 'already' while a scan admitted after the
\* termination of an earlier scan of the same session is registered.
C1_Witness ==
    /\ \E hd \in InFlight : hd.op = "start" /\ hd.resp = "already"
    /\ \E i, j \in Scans :
          /\ i < j
          /\ scrapers[i].session_id = scrapers[j].session_id
          /\ scrapers[i].pc = "done" /\ scrapers[i].ownRemovals = 1
          /\ ~scrapers[i].stopFlagged
          /\ ~scrapers[j].overwrote
          /\ Registered(j)

\* C2: at most one scan task that has not reached a terminal state exists
\* per session id (stated for scans admitted one after the other; admissions
\* that race each other are the subject of C3).
C2_OneActivePerSession ==
    \A i, j \in Scans :
        (i # j /\ scrapers[i].session_id = scrapers[j].session_id
              /\ ~scrapers[i].overwrote /\ ~scrapers[j].overwrote)
            => ~(Active(i) /\ Active(j))

\* C3: of two concurrent start_scraping requests for one session at most one
\* is admitted: no scraper is stored and started over the registry entry
\* that a concurrent request stored after both passed the membership test.
C3_OneAdmitted == \A i \in Scans : ~scrapers[i].overwrote

\* C4: a registry entry is removed only when the task of its scan has
\* reached a terminal state: no step deletes the entry of a scan whose task
\* is still iterating.
C4_RemovedOnlyWhenTerminal ==
    [][\A sid \in DOMAIN scraping_sessions :
          sid \notin DOMAIN scraping_sessions'
             => scrapers[scraping_sessions[sid]].pc \notin IterPcs]_vars

\* C5: a run for which stop_scraping succeeded while one of its cases was
\* in flight never emits scraping_complete.
C5_NoCompleteAfterStop ==
    \A i \in Scans : scrapers[i].stopNum # 0 => scrapers[i].complete = 0

\* C6: once stop_scraping has succeeded while the scan was at case stopNum,
\* no progress_update is emitted for a later case (nor with a 'current'
\* beyond that case's index).
C6_NoProgressBeyondStop ==
    [][\A i \in Scans :
          (scrapers[i].stopNum # 0 /\ scrapers'[i].lastProgress # scrapers[i].lastProgress)
          => /\ scrapers'[i].lastProgress[1] <= scrapers[i].stopNum
             /\ scrapers'[i].lastProgress[2] <= scrapers[i].stopNum - scrapers[i].start_num]_vars

\* C7: after a stop_scraping aimed at a scan has returned success, that
\* scan's task begins no further case iteration.
C7_StopTakesEffect == \A i \in Scans : ~scrapers[i].lateIter

\* The loop of scraper i is over.
LoopLeft(i) == scrapers[i].pc \in {"exit", "del", "done"}

\* C8: a per-case failure at case n never ends the scan: as long as no stop
\* was requested the run raises no scraping_error, and when it ends every
\* case after n has been visited and scraping_complete has been emitted.
C8_PerCaseIsolation ==
    \A i \in Scans :
        LET s == scrapers[i]
        IN (s.firstFail # 0 /\ ~s.stopFlagged) =>
              /\ s.error = 0 /\ s.pc # "failed"
              /\ LoopLeft(i) => \A n \in (s.firstFail + 1)..s.end_num : n \in s.visited
              /\ s.pc \in {"del", "done"} => s.complete = 1

\* A run whose first case failed, that was not stopped, and that visited its
\* second case and emitted scraping_complete.
C8_Witness ==
    \E i \in Scans :
        LET s == scrapers[i]
        IN /\ s.firstFail = s.start_num /\ s.start_num < s.end_num
           /\ ~s.stopFlagged
           /\ s.pc = "done" /\ s.complete = 1 /\ s.error = 0
           /\ s.visited = s.start_num..s.end_num

\* The with block of scraper i has been left.
WithLeft(i) == scrapers[i].pc \in {"failed", "del", "done"}

\* C9: the browser is never released twice nor closed twice, and once the
\* with block is left a browser that was launched has been released exactly
\* once.
C9_ReleasedOnce ==
    \A i \in Scans :
        LET s == scrapers[i]
        IN /\ s.releases <= 1 /\ s.closeCalls <= 1
           /\ ~s.launched => s.releases = 0
           /\ (s.launched /\ WithLeft(i)) => s.releases = 1

\* Two ended runs that launched a browser, one stopped or completed, the
\* other ended by a fatal error, each with one release.
C9_Witness ==
    \E i, j \in Scans :
        /\ scrapers[i].pc = "done" /\ scrapers[i].complete = 1
        /\ scrapers[i].launched /\ scrapers[i].releases = 1
        /\ scrapers[j].pc = "done" /\ scrapers[j].error = 1
        /\ scrapers[j].launched /\ scrapers[j].releases = 1

\* C10: a scan task that has ended has removed its own registry entry
\* exactly once, and no task ever removes the entry of another scan (stated
\* for scans admitted one after the other; admissions that race each other
\* are the subject of C3).
C10_RemovesOwnEntryOnce ==
    (\A j \in Scans : ~scrapers[j].overwrote) =>
        \A i \in Scans :
            /\ ~scrapers[i].removedOther
            /\ scrapers[i].pc = "done" => scrapers[i].ownRemovals = 1

\* A request body that start_scraping has to refuse for its parameters.
InvalidParams(req) ==
    \/ ~req.wellFormed
    \/ \A j \in 1..Len(req.keywords) : \A c \in 1..Len(req.keywords[j]) :
          req.keywords[j][c] = " "
    \/ req.startNum > req.endNum
    \/ req.endNum - req.startNum > 10000

\* A step that answers a start_scraping request with a parameter error and
\* changes neither the registry nor the scrapers and puts no request on its
\* way to the insertion and the thread start.
C13_RefusedStep ==
    /\ \E hd \in Arrived :
          /\ hd.op = "start" /\ hd.pc = "replied"
          /\ hd.resp \in InvalidResponses
    /\ scrapers' = scrapers
    /\ scraping_sessions' = scraping_sessions
    /\ \A hd \in BagToSet(handlers') :
          hd.pc = "insert" => CopiesIn(hd, handlers') = CopiesIn(hd, handlers)

\* C13: a start_scraping request with invalid parameters is answered with an
\* error response in the step that takes it up, and that step changes neither
\* the registry nor the scrapers and starts no thread: every step that takes
\* up a request is such a refusal, or the request it took up was not invalid.
C13_InvalidRejected ==
    [][BagCardinality(handlers') > BagCardinality(handlers) =>
         \/ C13_RefusedStep
         \/ \A req \in StartRequests(env) :
               ~(InvalidParams(req) /\ StartCheck(req))]_vars

\* A request refused for its range while a scan is registered and running.
C13_Witness ==
    /\ \E hd \in InFlight : hd.op = "start" /\ hd.resp = "range_too_large"
    /\ \E i \in Scans : Registered(i) /\ scrapers[i].pc \in IterPcs

\* C14: a run in which an error escaped the per-case boundary attempts no
\* case after it, emits scraping_error once and never scraping_complete, and
\* when it has ended its entry is no longer in the registry.
C14_FatalError ==
    \A i \in Scans :
        LET s == scrapers[i]
        IN (s.pc = "failed" \/ s.error > 0) =>
              /\ s.complete = 0
              /\ s.visited = {} /\ s.pc \notin IterPcs
              /\ s.pc \in {"del", "done"} => s.error = 1
              /\ s.pc = "done" => ~Registered(i)

\* A run ended by a fatal error after the browser was launched, followed by
\* a scan of the same session that was admitted afterwards.
C14_Witness ==
    \E i, j \in Scans :
        /\ i < j /\ scrapers[i].session_id = scrapers[j].session_id
        /\ scrapers[i].pc = "done" /\ scrapers[i].error = 1 /\ scrapers[i].launched
        /\ ~scrapers[i].stopFlagged /\ scrapers[i].ownRemovals = 1
        /\ ~scrapers[j].overwrote /\ Registered(j)

\* C16, as a step: the loop variable only moves to the next case number,
\* which lies in the range and was not visited before.
C16_NextCase ==
    \A i \in Scans :
        scrapers'[i].num # scrapers[i].num =>
            /\ scrapers'[i].num = scrapers[i].num + 1
            /\ scrapers'[i].num \in scrapers[i].start_num..scrapers[i].end_num
            /\ scrapers'[i].num \notin scrapers[i].visited
            /\ scrapers'[i].visited = scrapers[i].visited \cup {scrapers'[i].num}

\* C16, as a state: the cases visited so far are those from startNum up to
\* the loop variable, and a run that was not stopped has visited the whole
\* range when it emits scraping_complete.
C16_VisitedPrefix ==
    \A i \in Scans :
        LET s == scrapers[i]
        IN /\ s.visited = s.start_num..s.num
           /\ (s.complete > 0 /\ ~s.stopFlagged) => s.visited = s.start_num..s.end_num

\* C16: cases are visited in increasing case-number order from startNum, each
\* at most once, and scraping_complete of a run that was not stopped comes
\* after the whole range was visited.
C16_InOrder == [][C16_NextCase]_vars /\ []C16_VisitedPrefix

\* A run over two cases, never stopped and without a failed case, that has
\* emitted scraping_complete.
C16_Witness ==
    \E i \in Scans :
        LET s == scrapers[i]
        IN /\ s.complete = 1 /\ ~s.stopFlagged /\ s.firstFail = 0
           /\ s.end_num = s.start_num + 1
           /\ s.visited = {s.start_num, s.end_num}

\* The configured keywords of a scan, as a set.
KeywordSet(s) == {s.keywords[j] : j \in 1..Len(s.keywords)}

\* The case numbers listed for keyword k in the result map.
Listed(s, k) ==
    IF k \in DOMAIN s.results
    THEN {s.results[k][j] : j \in 1..Len(s.results[k])}
    ELSE {}

\* C11: when scraping_complete has been emitted, the result map lists for
\* every configured keyword exactly the case numbers of the range whose text
\* matched it (each once, under no other key), and total_found is the number
\* of (keyword, case) matches.
C11_ResultsAtComplete ==
    \A i \in Scans :
        LET s == scrapers[i]
        IN s.complete > 0 =>
              /\ DOMAIN s.results \subseteq KeywordSet(s)
              /\ \A k \in KeywordSet(s) :
                    /\ Listed(s, k) =
                          {NumberStr(n) : n \in {m \in s.start_num..s.end_num :
                                                    <<k, m>> \in s.matched}}
                    /\ k \in DOMAIN s.results =>
                          Len(s.results[k]) = Cardinality(Listed(s, k))
              /\ s.total_found = Cardinality(s.matched)

\* A completed run with two keywords over two cases in which one keyword
\* matched both cases and the other matched one.
C11_Witness ==
    \E i \in Scans :
        LET s == scrapers[i]
        IN /\ s.complete = 1 /\ ~s.stopFlagged
           /\ Cardinality(DOMAIN s.results) = 2
           /\ s.total_found = 3

\* C17: in every pass through the loop body page.goto is called at most 3
\* times and not again after its first success, time.sleep(1) is executed
\* between two calls only, and after 3 failed calls no further step of the
\* case is begun, nothing is matched or emitted for it, and the loop goes on.
C17_NavigationRetries ==
    \A i \in Scans :
        LET s == scrapers[i]
            c == s.caseLog
        IN c.outcome # "none" =>
              /\ c.attempts \in 1..3
              /\ c.attempts = IF c.fails < 3 THEN c.fails + 1 ELSE 3
              /\ c.backoffs = c.attempts - 1
              /\ c.fails < 3 => "form" \in c.steps
              /\ c.fails >= 3 =>
                    /\ c.outcome = "goto_failed"
                    /\ c.steps = {} /\ c.emitted = {}
                    /\ \A k \in KeywordSet(s) : <<k, s.num>> \notin s.matched
                    /\ s.pc = "iter" /\ s.error = 0

\* A run whose first case failed has processed its second case, whose
\* navigation succeeded at the third call after two backoffs.
C17_Witness ==
    \E i \in Scans :
        LET s == scrapers[i]
        IN /\ s.firstFail = s.start_num /\ s.num = s.start_num + 1
           /\ s.caseLog.outcome = "processed"
           /\ s.caseLog.attempts = 3 /\ s.caseLog.backoffs = 2

\* C18: 0 <= current_progress <= total; the progress_update of case number n
\* carries current = n - startNum; and current_progress = total when a run
\* that was not stopped has emitted scraping_complete.
C18_ProgressCounter ==
    \A i \in Scans :
        LET s == scrapers[i]
        IN /\ 0 <= s.current_progress /\ s.current_progress <= s.total_searches
           /\ (s.lastProgress # <<>> /\ s.lastProgress[1] >= s.start_num) =>
                 s.lastProgress[2] = s.lastProgress[1] - s.start_num
           /\ (s.complete > 0 /\ ~s.stopFlagged) =>
                 s.current_progress = s.total_searches

\* C19: when a pass through the loop body has ended, whatever its outcome,
\* the inter-case delay was executed in it.
C19_DelayAfterEveryCase ==
    \A i \in Scans :
        (scrapers[i].pc = "iter" /\ scrapers[i].caseLog.outcome # "none")
            => scrapers[i].caseLog.delayed

\* C20: a pass in which the result element did not appear in time has
\* emitted a timeout warning, has raised no scraping_error, and the loop goes
\* on with the next case.
C20_TimeoutWarning ==
    \A i \in Scans :
        LET s == scrapers[i]
        IN s.caseLog.outcome = "wait_timeout" =>
              /\ "timeout_warning" \in s.caseLog.emitted
              /\ s.error = 0 /\ s.pc = "iter"

\* C15: whenever the normalized (lowercased, trimmed) keyword is a substring
\* of the normalized document, the matcher reports a match with score 100 as
\* an exact one, at every threshold and whatever the fuzzy scores are.
C15_ExactAlwaysWins ==
    (/\ matching.stage = "done"
     /\ IsSubstring(Strip(Lower(matching.line)), Strip(Lower(matching.document))))
    => IF rev = "method"
       THEN matching.outcome = [matched |-> TRUE, score |-> 100, method |-> "exact"]
       ELSE matching.outcome =
               [matched |-> TRUE, match_score |-> 100, exact_match |-> TRUE]

\* The nested revision's decision for keyword line " c" and page text "Ac" at
\* threshold 100.
C15_Witness ==
    /\ rev = "function"
    /\ matching.stage = "done"
    /\ matching.line = <<" ", "c">> /\ matching.document = <<"A", "c">>
    /\ matching.threshold = 100
    /\ matching.outcome.matched

\* The thread of scraper i was started.
Admitted(i) == i \in Scans /\ scrapers[i].pc # "nothread"

\* The run of scraper i is over, its entry is out of the registry, and it
\* emitted scraping_complete or scraping_error or a stop was requested for it.
Ended(i) ==
    /\ i \in Scans /\ scrapers[i].pc = "done"
    /\ ~Registered(i)
    /\ \/ scrapers[i].complete > 0
       \/ scrapers[i].error > 0
       \/ scrapers[i].stopFlagged

\* C12, at termination: a run that is over is out of the registry and has
\* emitted scraping_complete or scraping_error, or a stop was requested.
C12_EndedWithReason ==
    \A i \in Scans : scrapers[i].pc = "done" => Ended(i)

\* C12: every admitted scan eventually terminates, out of the registry, with
\* scraping_complete or scraping_error emitted or a stop requested for it.
C12_Terminates ==
    /\ []C12_EndedWithReason
    /\ \A i \in 1..MaxScans : Admitted(i) ~> Ended(i)

\* A run that ended with scraping_complete, and was never stopped, after a
\* case of it had failed.
C12_Witness ==
    \E i \in Scans :
        /\ Ended(i) /\ scrapers[i].complete = 1 /\ scrapers[i].error = 0
        /\ ~scrapers[i].stopFlagged /\ scrapers[i].firstFail # 0

\* C22, as a state: a run has emitted at most one terminal event.
C22_OneTerminal ==
    \A i \in Scans : scrapers[i].complete + scrapers[i].error <= 1

\* C22, as a step: once a run has emitted its terminal event, no step emits
\* a progress_update or a match event of that run.
C22_SilentAfterTerminal ==
    \A i \in Scans :
        (scrapers[i].complete + scrapers[i].error > 0) =>
            /\ scrapers'[i].lastProgress = scrapers[i].lastProgress
            /\ scrapers'[i].matched = scrapers[i].matched
            /\ scrapers'[i].caseLog = scrapers[i].caseLog

\* C22: a run emits at most one terminal event (never scraping_complete and
\* scraping_error both), and no progress_update or match event after it.
C22_SingleTerminalEvent == []C22_OneTerminal /\ [][C22_SilentAfterTerminal]_vars

\* Two ended runs, one with scraping_complete after a match was reported, the
\* other with scraping_error, each the only terminal event of its run.
C22_Witness ==
    \E i, j \in Scans :
        /\ scrapers[i].pc = "done" /\ scrapers[i].complete = 1
        /\ scrapers[i].error = 0 /\ scrapers[i].matched # {}
        /\ scrapers[j].pc = "done" /\ scrapers[j].error = 1
        /\ scrapers[j].complete = 0

\* C23: a start_scraping request that returned an error leaves no entry of
\* its own in the registry: a scraper whose thread could not be started is
\* not registered.
C23_NoEntryAfterFailedStart ==
    \A i \in Scans : scrapers[i].pc = "nothread" => ~Registered(i)

\* C21, as a state: no list of the result map holds a case number twice,
\* every key is a configured keyword, and every listed case number is that of
\* a visited case of the range whose text matched the key.
C21_ResultsWellFormed ==
    \A i \in Scans :
        LET s == scrapers[i]
        IN /\ DOMAIN s.results \subseteq KeywordSet(s)
           /\ \A k \in DOMAIN s.results :
                 /\ \A a, b \in 1..Len(s.results[k]) :
                       a # b => s.results[k][a] # s.results[k][b]
                 /\ \A a \in 1..Len(s.results[k]) :
                       \E n \in s.visited :
                          /\ n \in s.start_num..s.end_num
                          /\ s.results[k][a] = NumberStr(n)
                          /\ <<k, n>> \in s.matched

\* C21, as a step: every key stays in the result map and its list is only
\* extended.
C21_ResultsGrow ==
    \A i \in Scans :
        \A k \in DOMAIN scrapers[i].results :
            /\ k \in DOMAIN scrapers'[i].results
            /\ Len(scrapers'[i].results[k]) >= Len(scrapers[i].results[k])
            /\ SubSeq(scrapers'[i].results[k], 1, Len(scrapers[i].results[k]))
                  = scrapers[i].results[k]

\* C21: in every state of a scan the result map is well formed (no duplicate,
\* only configured keywords, only visited cases that matched), and no step
\* removes anything from it.
C21_ResultsInvariant == []C21_ResultsWellFormed /\ [][C21_ResultsGrow]_vars

\* A run whose keyword was configured twice has listed both of its cases
\* under it, each once.
C21_Witness ==
    \E i \in Scans :
        LET s == scrapers[i]
        IN /\ Len(s.keywords) = 2 /\ s.keywords[1] = s.keywords[2]
           /\ s.keywords[1] \in DOMAIN s.results
           /\ Len(s.results[s.keywords[1]]) = 2

====
